---- MODULE Spec2Model ----
(***************************************************************************)
(* A model of the Scanner of src/src/lib.rs: a token / line / integer      *)
(* reader over a std::io::BufRead.  Bytes are the integers 0..255, text is *)
(* a sequence of bytes, an Option<T> is the empty sequence (None) or a     *)
(* one-element sequence (Some).  The stream is an in-memory reader: a      *)
(* slice (&[u8], as in tests.rs) or a BufReader of capacity BufCap over a  *)
(* slice; neither ever returns an I/O error, so the branch of lines 88-90  *)
(* is never taken and read_line gives Err only for bytes that are not      *)
(* UTF-8.                                                                  *)
(***************************************************************************)
EXTENDS Integers, Sequences, FiniteSets, TLC

VARIABLES
    source,           \* kind of BufRead behind `stream`: "slice" or "bufreader"
    stream,           \* the bytes of the stream not yet consumed
    avail,            \* how many leading bytes of `stream` the reader has buffered
    delim,            \* Scanner.delim, a compiled pattern
    radix,            \* Scanner.radix
    pc,               \* "idle", or "skip" inside next()'s skip loop
    caller,           \* the method whose call to next() is in progress
    input,            \* next(): the local `input`
    consume_counter,  \* next(): the local `consume_counter`
    iters,            \* next(): iterations of the skip loop made by this call
    op,               \* the last method that returned
    arg,              \* its argument (a radix), 0 when it takes none
    ret,              \* its result
    tok,              \* the result of the last call of next(), direct or nested
    pre,              \* `stream` when the last method was called
    buf,              \* what fill_buf gave the last call of next()
    orig,             \* `stream` at construction
    out               \* the tokens next() has returned so far, in order

vars == <<source, stream, avail, delim, radix, pc, caller, input,
          consume_counter, iters, op, arg, ret, tok, pre, buf, orig, out>>

\* ------------------------------------------------------------------ bounds

\* The longest input of Spec and of SpecTokens, and the longest freely
\* chosen input of SpecI32.
MaxLen == 4
MaxNumLen == 3
\* The capacity of the BufReader.
BufCap == 2
\* `iters` counts the skip loop's iterations up to this many.
MaxIters == 2

\* ----------------------------------------------------------------- options

None == <<>>
Some(v) == <<v>>

\* ------------------------------------------------------------------- bytes

Min(a, b) == IF a < b THEN a ELSE b

Drop(s, n) == SubSeq(s, n + 1, Len(s))
Take(s, n) == SubSeq(s, 1, n)

\* ' ' '\n' ',' 'a' and 0xFF, a byte no UTF-8 text holds
Alphabet == {32, 10, 44, 97, 255}

RECURSIVE SeqsUpTo(_, _)
SeqsUpTo(S, n) ==
    IF n = 0 THEN {<<>>}
    ELSE LET shorter == SeqsUpTo(S, n - 1)
         IN  shorter \cup {Append(s, x) : s \in {t \in shorter : Len(t) = n - 1}, x \in S}

IsCont(b) == b >= 128 /\ b <= 191

\* The length of the UTF-8 sequence at s[i], 0 when there is none.
Utf8SeqLen(s, i) ==
    LET b  == s[i]
        c1 == IF i + 1 <= Len(s) THEN s[i + 1] ELSE 0
        c2 == IF i + 2 <= Len(s) THEN s[i + 2] ELSE 0
        c3 == IF i + 3 <= Len(s) THEN s[i + 3] ELSE 0
    IN  IF b <= 127 THEN 1
        ELSE IF b >= 194 /\ b <= 223 THEN (IF IsCont(c1) THEN 2 ELSE 0)
        ELSE IF b = 224 THEN (IF c1 >= 160 /\ c1 <= 191 /\ IsCont(c2) THEN 3 ELSE 0)
        ELSE IF b = 237 THEN (IF c1 >= 128 /\ c1 <= 159 /\ IsCont(c2) THEN 3 ELSE 0)
        ELSE IF b >= 225 /\ b <= 239 THEN (IF IsCont(c1) /\ IsCont(c2) THEN 3 ELSE 0)
        ELSE IF b = 240 THEN (IF c1 >= 144 /\ c1 <= 191 /\ IsCont(c2) /\ IsCont(c3) THEN 4 ELSE 0)
        ELSE IF b >= 241 /\ b <= 243 THEN (IF IsCont(c1) /\ IsCont(c2) /\ IsCont(c3) THEN 4 ELSE 0)
        ELSE IF b = 244 THEN (IF c1 >= 128 /\ c1 <= 143 /\ IsCont(c2) /\ IsCont(c3) THEN 4 ELSE 0)
        ELSE 0

RECURSIVE ValidFrom(_, _)
ValidFrom(s, i) ==
    IF i > Len(s) THEN TRUE
    ELSE LET n == Utf8SeqLen(s, i)
         IN  n > 0 /\ ValidFrom(s, i + n)

\* str::from_utf8(buf).is_ok()
ValidUtf8(s) == ValidFrom(s, 1)

\* ---------------------------------------------------------------- patterns
\* A compiled pattern is a sequence of items, each a byte class with a
\* quantifier: "one", "plus" (greedy +) or "star" (greedy *).

\* The bytes \s matches in ASCII text.
Whitespace == {9, 10, 11, 12, 13, 32}

Item(cls, q) == [cls |-> cls, q |-> q]

\* Regex::new(r"\s+")
WsPlus == <<Item(Whitespace, "plus")>>
\* Regex::new(r"\s*")
WsStar == <<Item(Whitespace, "star")>>
\* Regex::new(r",a*")
CommaAs == <<Item({44}, "one"), Item({97}, "star")>>

\* Regex::new(regex::escape(text)): every byte of text matches itself.
Literal(text) == [i \in 1..Len(text) |-> Item({text[i]}, "one")]

\* How many bytes of s from offset i on lie in cls.
RECURSIVE RunLen(_, _, _)
RunLen(cls, s, i) ==
    IF i < Len(s) /\ s[i + 1] \in cls THEN 1 + RunLen(cls, s, i + 1) ELSE 0

Largest(S) == CHOOSE x \in S : \A y \in S : y <= x

\* The end offset of the match of items k.. of p that starts at offset i of
\* s, -1 when there is none.  A greedy item takes the most bytes that still
\* let the rest match.
RECURSIVE MatchFrom(_, _, _, _)
MatchFrom(p, k, s, i) ==
    IF k > Len(p) THEN i
    ELSE LET run == RunLen(p[k].cls, s, i)
             lo  == IF p[k].q = "star" THEN 0 ELSE 1
             hi  == IF p[k].q = "one" THEN Min(run, 1) ELSE run
             ok  == {n \in lo..hi : MatchFrom(p, k + 1, s, i + n) # -1}
         IN  IF ok = {} THEN -1 ELSE MatchFrom(p, k + 1, s, i + Largest(ok))

NoMatch == [start |-> -1, end |-> -1]

\* Regex::find: the leftmost match, as byte offsets, or NoMatch.
Find(p, s) ==
    LET starts == {i \in 0..Len(s) : MatchFrom(p, 1, s, i) # -1}
    IN  IF starts = {} THEN NoMatch
        ELSE LET i == CHOOSE x \in starts : \A y \in starts : x <= y
             IN  [start |-> i, end |-> MatchFrom(p, 1, s, i)]

\* ----------------------------------------------------------------- numbers

I32Max == 2147483647
I32Min == -I32Max - 1

\* char::to_digit: the value of an ASCII digit or letter, 99 for any other byte.
DigitVal(b) ==
    IF b >= 48 /\ b <= 57 THEN b - 48
    ELSE IF b >= 97 /\ b <= 122 THEN b - 87
    ELSE IF b >= 65 /\ b <= 90 THEN b - 55
    ELSE 99

\* i32::checked_mul(a, r) for r > 0, i32::checked_add(a, d) and
\* i32::checked_sub(a, d) for d >= 0: None when the result is no i32.  The
\* tests are made without leaving the i32 range.
CheckedMul(a, r) ==
    IF a > I32Max \div r \/ a < (I32Min + r - 1) \div r THEN None ELSE Some(a * r)
\* A changed CheckedAdd: the sum wraps around instead of failing.
WrappingAdd(a, d) ==
    IF a > I32Max - d THEN Some(I32Min + (d - (I32Max - a) - 1)) ELSE Some(a + d)
CheckedAdd(a, d) == IF a > I32Max - d THEN None ELSE Some(a + d)
CheckedSub(a, d) == IF a < I32Min + d THEN None ELSE Some(a - d)

\* i32::from_str_radix's digit loop: the digits s[i..] folded into acc with
\* checked_mul and checked_add (positive) or checked_sub (negative); None on
\* a byte that is no digit of the radix and on overflow.
RECURSIVE FoldDigits(_, _, _, _, _)
FoldDigits(s, i, r, neg, acc) ==
    IF i > Len(s) THEN Some(acc)
    ELSE LET d   == DigitVal(s[i])
             mul == CheckedMul(acc, r)
             nxt == IF neg THEN CheckedSub(mul[1], d) ELSE CheckedAdd(mul[1], d)
         IN  IF d >= r THEN None
             ELSE IF mul = None THEN None
             ELSE IF nxt = None THEN None
             ELSE FoldDigits(s, i + 1, r, neg, nxt[1])

\* i32::from_str_radix(s, r): an optional sign, then at least one digit.
FromStrRadix(s, r) ==
    IF Len(s) = 0 THEN None
    ELSE IF s[1] \in {43, 45}
         THEN (IF Len(s) = 1 THEN None ELSE FoldDigits(s, 2, r, s[1] = 45, 0))
         ELSE FoldDigits(s, 1, r, FALSE, 0)

\* str::parse::<i32>()
ParseI32(s) == FromStrRadix(s, 10)

\* String::rfind(','): the 1-based index of the last comma, 0 when none.
RFindComma(s) ==
    LET at == {i \in 1..Len(s) : s[i] = 44}
    IN  IF at = {} THEN 0 ELSE Largest(at)

\* String::remove(idx)
Remove(s, i) == Take(s, i - 1) \o Drop(s, i)

\* while let Some(comma_idx) = input.rfind(',') { input.remove(comma_idx); }
RECURSIVE StripCommas(_)
StripCommas(s) ==
    IF RFindComma(s) = 0 THEN s ELSE StripCommas(Remove(s, RFindComma(s)))

\* ------------------------------------------------------------------ stream

\* BufRead::fill_buf: how many bytes are buffered once it returns.  A slice
\* exposes all of itself; a BufReader refills, up to its capacity, only when
\* its buffer is empty.
FillBuf(src, s, a) ==
    IF src = "slice" THEN Len(s)
    ELSE IF a > 0 THEN a
    ELSE Min(BufCap, Len(s))

\* The 1-based index of the first '\n' of s, 0 when none.
FirstNewline(s) ==
    LET at == {i \in 1..Len(s) : s[i] = 10}
    IN  IF at = {} THEN 0 ELSE CHOOSE i \in at : \A j \in at : i <= j

\* BufRead::read_until(b'\n'): fill_buf and consume until a newline has been
\* taken or fill_buf is empty.  line is what was read, rest what is left.
RECURSIVE ReadUntil(_, _, _, _)
ReadUntil(src, s, a, acc) ==
    LET a1 == FillBuf(src, s, a)
        i  == FirstNewline(Take(s, a1))
    IN  IF i > 0 THEN [line |-> acc \o Take(s, i), rest |-> Drop(s, i), avail |-> a1 - i]
        ELSE IF a1 = 0 THEN [line |-> acc, rest |-> s, avail |-> 0]
        ELSE ReadUntil(src, Drop(s, a1), 0, acc \o Take(s, a1))

\* ------------------------------------------------------------------- state

Sources == {"slice", "bufreader"}
Inputs == SeqsUpTo(Alphabet, MaxLen)

\* What set_delim is given, and the texts set_delim_str is given.
Regexes == {WsPlus, WsStar, CommaAs}
Literals == {<<>>, <<44>>, <<97, 44>>}

InitScanner(src, s) ==
    /\ source = src
    /\ stream = s
    /\ avail = IF src = "slice" THEN Len(s) ELSE 0
    /\ radix = 10
    /\ pc = "idle"
    /\ caller = "none"
    /\ input = <<>>
    /\ consume_counter = 0
    /\ iters = 0
    /\ op = "new"
    /\ arg = 0
    /\ ret = None
    /\ tok = None
    /\ pre = s
    /\ buf = <<>>
    /\ orig = s
    /\ out = <<>>

\* Scanner::new over any source and any input.
Init == \E src \in Sources, s \in Inputs : InitScanner(src, s) /\ delim = WsPlus

\* A method returns r without calling next().
Returned(name, a, r) ==
    /\ pc' = "idle"
    /\ op' = name
    /\ arg' = a
    /\ ret' = r

\* -------------------------------------------------------------- delimiters

SetDelim(p) ==
    /\ pc = "idle"
    /\ delim' = p
    /\ Returned("set_delim", 0, None)
    /\ pre' = stream
    /\ tok' = None
    /\ buf' = <<>>
    /\ UNCHANGED <<source, stream, avail, radix, caller, input, consume_counter, iters>>

SetDelimStr(text) ==
    /\ pc = "idle"
    /\ delim' = Literal(text)
    /\ Returned("set_delim_str", 0, None)
    /\ pre' = stream
    /\ tok' = None
    /\ buf' = <<>>
    /\ UNCHANGED <<source, stream, avail, radix, caller, input, consume_counter, iters>>

\* -------------------------------------------------------------------- next

\* A changed Enter: bytes that are not UTF-8 are consumed before None is
\* returned.
EnterConsuming(name, a) ==
    LET a1 == FillBuf(source, stream, avail)
        b  == Take(stream, a1)
    IN  /\ pc = "idle"
        /\ pre' = stream
        /\ buf' = b
        /\ arg' = a
        /\ IF ValidUtf8(b)
           THEN /\ pc' = "skip"
                /\ caller' = name
                /\ input' = b
                /\ consume_counter' = 0
                /\ iters' = 0
                /\ avail' = a1
                /\ stream' = stream
                /\ UNCHANGED <<op, ret, tok>>
           ELSE /\ pc' = "idle"
                /\ op' = name
                /\ ret' = None
                /\ tok' = None
                /\ avail' = 0
                /\ stream' = Drop(stream, a1)
                /\ UNCHANGED <<caller, input, consume_counter, iters>>
        /\ UNCHANGED <<source, delim, radix>>

\* Lines 56-68: the call, fill_buf and the UTF-8 check.  When the buffered
\* bytes are not UTF-8, next() returns None at once and its caller, if it is
\* another method, returns None too; otherwise the skip loop starts.
Enter(name, a) ==
    LET a1 == FillBuf(source, stream, avail)
        b  == Take(stream, a1)
    IN  /\ pc = "idle"
        /\ pre' = stream
        /\ buf' = b
        /\ avail' = a1
        /\ arg' = a
        /\ IF ValidUtf8(b)
           THEN /\ pc' = "skip"
                /\ caller' = name
                /\ input' = b
                /\ consume_counter' = 0
                /\ iters' = 0
                /\ UNCHANGED <<op, ret, tok>>
           ELSE /\ pc' = "idle"
                /\ op' = name
                /\ ret' = None
                /\ tok' = None
                /\ UNCHANGED <<caller, input, consume_counter, iters>>
        /\ stream' = stream
        /\ UNCHANGED <<source, delim, radix>>

\* Lines 71-77: one iteration of the skip loop, taken while the delimiter
\* matches at offset 0.
SkipIter ==
    LET found == Find(delim, input)
    IN  /\ pc = "skip"
        /\ found # NoMatch
        /\ found.start = 0
        /\ consume_counter' = consume_counter + found.end
        /\ input' = Drop(input, found.end)
        /\ iters' = IF iters < MaxIters THEN iters + 1 ELSE iters
        /\ UNCHANGED <<source, stream, avail, delim, radix, pc, caller, op, arg,
                       ret, tok, pre, buf>>

\* A changed Extract: the token runs to the end of the delimiter match.
ExtractKeepsDelim(d, inp, cc) ==
    LET found == Find(d, inp)
    IN  IF found # NoMatch
        THEN [res |-> Take(inp, found.end), n |-> cc + found.end]
        ELSE [res |-> inp, n |-> cc + Len(inp)]

\* A changed Extract: the delimiter match after the token is consumed too.
ExtractEatsDelim(d, inp, cc) ==
    LET found == Find(d, inp)
    IN  IF found # NoMatch
        THEN [res |-> Take(inp, found.start), n |-> cc + found.end]
        ELSE [res |-> inp, n |-> cc + Len(inp)]

\* Lines 79-87: the token and the number of bytes to consume.
Extract(d, inp, cc) ==
    LET found == Find(d, inp)
    IN  IF found # NoMatch
        THEN [res |-> Take(inp, found.start), n |-> cc + found.start]
        ELSE [res |-> inp, n |-> cc + Len(inp)]

\* A changed Token: an empty token is returned as Some("").
TokenAlways(res) == Some(res)

\* Lines 94-98
Token(res) == IF Len(res) > 0 THEN Some(res) ELSE None

\* Lines 126-139: what next_i32 makes of the token next() gave it.
I32Of(t) == IF t = None THEN None ELSE ParseI32(StripCommas(t[1]))

\* What an integer read in radix `arg` makes of the token next() gave it.
IntOf(t) == IF t = None THEN None ELSE FromStrRadix(StripCommas(t[1]), arg)

\* What method `name` returns when its call of next() has returned t.
Result(name, t) ==
    CASE name = "next" -> t
      [] name = "next_i32" -> I32Of(t)
      [] OTHER -> IntOf(t)

\* Lines 71-74 and 79-98: the skip loop ends (no match, or a match that does
\* not start at offset 0), the token is taken, the stream consumes, and
\* next() returns Token(res) to `name`, which returns Result(name, token).
Leave(name) ==
    LET found == Find(delim, input)
        e     == Extract(delim, input, consume_counter)
        t     == Token(e.res)
    IN  /\ pc = "skip"
        /\ caller = name
        /\ found = NoMatch \/ found.start > 0
        /\ stream' = Drop(stream, e.n)
        /\ avail' = avail - e.n
        /\ tok' = t
        /\ pc' = "idle"
        /\ op' = name
        /\ ret' = Result(name, t)
        /\ caller' = "none"
        /\ input' = <<>>
        /\ consume_counter' = 0
        /\ iters' = 0
        /\ UNCHANGED <<source, delim, radix, arg, pre, buf>>

\* Scanner::next is called.
Next == Enter("next", 0)

\* Scanner::next returns.
NextReturn == Leave("next")

\* --------------------------------------------------------------- next_line

\* A changed PopNewline: a line that is empty once its '\n' is gone is None.
PopNewlineEmptyIsNone(res) ==
    IF Len(res) = 0 THEN None
    ELSE IF res[Len(res)] = 10
         THEN (IF Len(res) = 1 THEN None ELSE Some(Take(res, Len(res) - 1)))
    ELSE Some(res)

\* Lines 107-117: the line read, without its final '\n' if it has one; None
\* when nothing was read.
PopNewline(res) ==
    IF Len(res) = 0 THEN None
    ELSE IF res[Len(res)] = 10 THEN Some(Take(res, Len(res) - 1))
    ELSE Some(res)

\* BufRead::read_line consumes through the next '\n' and gives Err, with
\* nothing appended to res, when what it read is not UTF-8.
NextLine ==
    LET r == ReadUntil(source, stream, avail, <<>>)
    IN  /\ pc = "idle"
        /\ pre' = stream
        /\ stream' = r.rest
        /\ avail' = r.avail
        /\ Returned("next_line", 0, IF ValidUtf8(r.line) THEN PopNewline(r.line) ELSE None)
        /\ tok' = None
        /\ buf' = <<>>
        /\ UNCHANGED <<source, delim, radix, caller, input, consume_counter, iters>>

\* ---------------------------------------------------------------- next_i32

\* Scanner::next_i32 is called, and calls next().
NextI32 == Enter("next_i32", 0)

\* A changed Leave: when `name` has no result to give, nothing is consumed.
LeaveRetry(name) ==
    LET found == Find(delim, input)
        e     == Extract(delim, input, consume_counter)
        t     == Token(e.res)
        n     == IF Result(name, t) = None THEN 0 ELSE e.n
    IN  /\ pc = "skip"
        /\ caller = name
        /\ found = NoMatch \/ found.start > 0
        /\ stream' = Drop(stream, n)
        /\ avail' = avail - n
        /\ tok' = t
        /\ pc' = "idle"
        /\ op' = name
        /\ ret' = Result(name, t)
        /\ caller' = "none"
        /\ input' = <<>>
        /\ consume_counter' = 0
        /\ iters' = 0
        /\ UNCHANGED <<source, delim, radix, arg, pre, buf>>

\* A changed NextI32Return: a token that does not parse stays in the stream.
NextI32ReturnRetry == LeaveRetry("next_i32")

\* Scanner::next_i32 returns.
NextI32Return == Leave("next_i32")

\* ----------------------------------------------------------- specification

\* ------------------------------------------------------------------- radix
\* get_radix, set_radix, next_int and next_int_radix are called by tests.rs
\* and are not in lib.rs.

RadixOk(r) == r >= 2 /\ r <= 36

\* The radixes a caller passes.
Radixes == {0, 1, 2, 10, 36, 37}

\* A changed SetRadix: any radix is taken.
SetRadixUnchecked(r) ==
    /\ pc = "idle"
    /\ radix' = r
    /\ Returned("set_radix", r, None)
    /\ pre' = stream
    /\ tok' = None
    /\ buf' = <<>>
    /\ UNCHANGED <<source, stream, avail, delim, caller, input, consume_counter, iters>>

SetRadix(r) ==
    /\ pc = "idle"
    /\ radix' = IF RadixOk(r) THEN r ELSE radix
    /\ Returned("set_radix", r, None)
    /\ pre' = stream
    /\ tok' = None
    /\ buf' = <<>>
    /\ UNCHANGED <<source, stream, avail, delim, caller, input, consume_counter, iters>>

GetRadix ==
    /\ pc = "idle"
    /\ Returned("get_radix", 0, Some(radix))
    /\ pre' = stream
    /\ tok' = None
    /\ buf' = <<>>
    /\ UNCHANGED <<source, stream, avail, delim, radix, caller, input,
                   consume_counter, iters>>

\* next_int is called: an integer read in the scanner's radix.
NextInt == Enter("next_int", radix)

NextIntReturn == Leave("next_int")

\* next_int_radix(r) is called with a radix in [2,36].
NextIntRadix(r) == RadixOk(r) /\ Enter("next_int_radix", r)

NextIntRadixReturn == Leave("next_int_radix")

\* A changed NextIntRadixInvalid: the token is read, and consumed, before the
\* radix is looked at.
NextIntRadixInvalidConsumes(r) == ~RadixOk(r) /\ Enter("next_int_radix", r)

\* next_int_radix(r) with a radix outside [2,36]: tests.rs has it return None
\* and leave the token in the stream, for the read that follows to find.
NextIntRadixInvalid(r) ==
    /\ pc = "idle"
    /\ ~RadixOk(r)
    /\ Returned("next_int_radix", r, None)
    /\ pre' = stream
    /\ tok' = None
    /\ buf' = <<>>
    /\ UNCHANGED <<source, stream, avail, delim, radix, caller, input,
                   consume_counter, iters>>

\* ----------------------------------------------------------- specifications

\* `orig` and `out` are a history kept by SpecTokens alone.
Quiet == UNCHANGED <<orig, out>>

\* The Scanner's methods on text: every step of next() and next_line(), and
\* the delimiter's setters.
Step ==
    \/ \E p \in Regexes : SetDelim(p) /\ Quiet
    \/ \E text \in Literals : SetDelimStr(text) /\ Quiet
    \/ Next /\ Quiet
    \/ SkipIter /\ Quiet
    \/ NextReturn /\ Quiet
    \/ NextLine /\ Quiet

Spec == Init /\ [][Step]_vars

\* next() alone, called again and again on a whole buffered input under a
\* delimiter that never matches the empty string; `out` records what the
\* calls return.
MatchesEmpty(p) == MatchFrom(p, 1, <<>>, 0) # -1

InitTokens ==
    \E s \in Inputs, p \in Regexes \cup {Literal(text) : text \in Literals} :
        /\ ~MatchesEmpty(p)
        /\ InitScanner("slice", s) /\ delim = p

Record ==
    /\ orig' = orig
    /\ out' = IF pc = "skip" /\ pc' = "idle" /\ ret' # None THEN Append(out, ret'[1]) ELSE out

StepTokens ==
    \/ Next /\ Record
    \/ SkipIter /\ Record
    \/ NextReturn /\ Record

SpecTokens == InitTokens /\ [][StepTokens]_vars

\* next_i32 and next() on numeric text: every text of at most MaxNumLen
\* bytes of NumAlphabet, and the decimal texts around the ends of i32.

\* '1' '9' '-' ',' ' ' 'a'
NumAlphabet == {49, 57, 45, 44, 32, 97}

\* The ASCII text of a sequence of decimal digits.
Ascii(ds) == [i \in 1..Len(ds) |-> 48 + ds[i]]

Magnitudes ==
    { <<2,1,4,7,4,8,3,6,4,7>>, <<2,1,4,7,4,8,3,6,4,8>>, <<2,1,4,7,4,8,3,6,4,9>>,
      <<2,1,4,7,4,8,3,6,4,6>>, <<4,2,9,4,9,6,7,2,9,6>>, <<4,2,9,4,9,6,7,3,0,1>>,
      <<2,1,4,7,4,8,3,6,4,7,0>>, <<0,2,1,4,7,4,8,3,6,4,7>>, <<0,0,0,0,0,0,0,0,0,0,7>>,
      <<9,9,9,9,9,9,9,9,9,9>>, <<1,0,0,0,0,0,0,0,0,0>> }

\* ds with a ',' before every group of three digits counted from the right.
Grouped(ds) ==
    LET n == Len(ds)
        commas == {i \in 2..n : (n - i + 1) % 3 = 0}
        \* the byte at position j of the grouped text
        pos(i) == i + Cardinality({c \in commas : c <= i})
        len == n + Cardinality(commas)
    IN  [j \in 1..len |->
            IF \E i \in 1..n : pos(i) = j
            THEN 48 + ds[CHOOSE i \in 1..n : pos(i) = j]
            ELSE 44]

Boundary ==
    UNION { { Ascii(m), <<45>> \o Ascii(m), <<43>> \o Ascii(m),
              Grouped(m), <<45>> \o Grouped(m) } : m \in Magnitudes }

NumInputs == SeqsUpTo(NumAlphabet, MaxNumLen) \cup Boundary

InitI32 == \E src \in Sources, s \in NumInputs : InitScanner(src, s) /\ delim = WsPlus

StepI32 ==
    \/ NextI32 /\ Quiet
    \/ SkipIter /\ Quiet
    \/ NextI32Return /\ Quiet
    \/ Next /\ Quiet
    \/ NextReturn /\ Quiet

SpecI32 == InitI32 /\ [][StepI32]_vars

\* The radix and the integer reads that take one.
\* "11010", "z", "1,0", "11010 z", ""
RadixInputs ==
    { <<49,49,48,49,48>>, <<122>>, <<49,44,48>>, <<49,49,48,49,48,32,122>>, <<>> }

InitRadix == \E s \in RadixInputs : InitScanner("slice", s) /\ delim = WsPlus

StepRadix ==
    \/ \E r \in Radixes : SetRadix(r) /\ Quiet
    \/ GetRadix /\ Quiet
    \/ NextInt /\ Quiet
    \/ NextIntReturn /\ Quiet
    \/ \E r \in Radixes : NextIntRadix(r) /\ Quiet
    \/ NextIntRadixReturn /\ Quiet
    \/ \E r \in Radixes : NextIntRadixInvalid(r) /\ Quiet
    \/ SkipIter /\ Quiet

SpecRadix == InitRadix /\ [][StepRadix]_vars

\* ------------------------------------------------------------------ claims
\* What the claims are stated against, written from the specification's words
\* and not from the code.

\* The bytes of the leading delimiter matches of text b.
RECURSIVE SkipLen(_, _)
SkipLen(d, b) ==
    LET m == Find(d, b)
    IN  IF m # NoMatch /\ m.start = 0 /\ m.end > 0
        THEN m.end + SkipLen(d, Drop(b, m.end))
        ELSE 0

\* The length of the token at the start of text b: up to the first delimiter
\* match, or all of b.
TokenLen(d, b) == IF Find(d, b) = NoMatch THEN Len(b) ELSE Find(d, b).start

\* The bytes next() consumes when fill_buf gives it b.
ConsumedByNext(d, b) ==
    IF ~ValidUtf8(b) THEN 0
    ELSE SkipLen(d, b) + TokenLen(d, Drop(b, SkipLen(d, b)))

\* The non-empty runs of text s between the successive delimiter matches.
RECURSIVE Tokens(_, _)
Tokens(d, s) ==
    LET m == Find(d, s)
    IN  IF m = NoMatch THEN (IF s = <<>> THEN <<>> ELSE <<s>>)
        ELSE (IF m.start > 0 THEN <<Take(s, m.start)>> ELSE <<>>)
             \o Tokens(d, Drop(s, m.end))

\* C1: under SpecTokens (a whole buffered input, a delimiter that never
\* matches the empty string, next() called again and again) on a UTF-8 input
\* the tokens returned so far are the first tokens of the input, in order,
\* and a call returns None only when every token has been returned, as does
\* every call after it.
C1_TokensInOrder ==
    pc = "idle" /\ ValidUtf8(orig) =>
        LET T == Tokens(delim, orig)
        IN  /\ Len(out) <= Len(T)
            /\ out = Take(T, Len(out))
            /\ (op = "next" /\ ret = None => out = T)
            /\ (op = "next" /\ ret # None => ret = Some(T[Len(out)]))

\* Leading delimiters, two tokens returned, and then None.
C1_Witness ==
    /\ pc = "idle" /\ op = "next" /\ ret = None
    /\ Len(out) = 2
    /\ Find(delim, orig).start = 0

\* The bytes of s through its first '\n', or all of s when it has none.
RECURSIVE LineBytes(_)
LineBytes(s) ==
    IF s = <<>> THEN <<>>
    ELSE IF Head(s) = 10 THEN <<10>>
    ELSE <<Head(s)>> \o LineBytes(Tail(s))

\* Line l without its final '\n', if it has one.
Chomp(l) == IF l # <<>> /\ l[Len(l)] = 10 THEN Take(l, Len(l) - 1) ELSE l

\* next() has just returned a token that a delimiter match follows in the
\* buffer.
TokenBeforeDelim ==
    /\ pc = "idle" /\ op = "next" /\ ret # None
    /\ Find(delim, Drop(buf, SkipLen(delim, buf))) # NoMatch

\* Then it consumed the leading delimiters and the token, and the delimiter
\* match after the token is still at the front of the buffer.
ConsumedToDelim ==
    TokenBeforeDelim =>
        LET k == SkipLen(delim, buf)
            n == Len(ret[1])
        IN  /\ ret[1] = SubSeq(pre, k + 1, k + n)
            /\ stream = Drop(pre, k + n)
            /\ Find(delim, Take(stream, avail)) # NoMatch
            /\ Find(delim, Take(stream, avail)).start = 0

\* C2 as stated: next() consumes the leading delimiters and the token and
\* leaves the delimiter after the token in the stream, and a next_line() that
\* follows at once returns the rest of the line, delimiter bytes first.
C2_Original ==
    /\ []ConsumedToDelim
    /\ [][TokenBeforeDelim /\ op' = "next_line"
            => ret' = Some(Chomp(LineBytes(stream)))]_vars

\* C2, amended: the same, when the rest of the line is UTF-8; when it is not,
\* next_line() returns None.
C2_NextLeavesDelimiter ==
    /\ []ConsumedToDelim
    /\ [][TokenBeforeDelim /\ op' = "next_line"
            => ret' = IF ValidUtf8(LineBytes(stream))
                      THEN Some(Chomp(LineBytes(stream)))
                      ELSE None]_vars

\* next() has returned "a" and left " a" in the stream.
C2_Witness ==
    /\ TokenBeforeDelim
    /\ ret = Some(<<97>>)
    /\ stream = <<32, 97>>

\* C3: next() never returns Some(""), and returns None whenever nothing is
\* left of the buffer once the leading delimiters are skipped.
C3_NeverEmptyToken ==
    pc = "idle" /\ op = "next" =>
        /\ ret # Some(<<>>)
        /\ (ValidUtf8(buf) /\ SkipLen(delim, buf) = Len(buf) => ret = None)

\* next() has returned None on a buffer of two or more bytes that holds
\* delimiter matches alone, under a delimiter that a setter installed.
C3_Witness ==
    /\ pc = "idle" /\ op = "next" /\ ret = None
    /\ ValidUtf8(buf) /\ Len(buf) > 1 /\ SkipLen(delim, buf) = Len(buf)
    /\ delim # WsPlus

\* C4: when the buffered bytes are not UTF-8, next() returns None, consumes
\* nothing, and a next() called at once is given the same bytes.
C4_InvalidUtf8NotConsumed ==
    pc = "idle" /\ op = "next" /\ ~ValidUtf8(buf) =>
        /\ ret = None
        /\ stream = pre
        /\ Take(stream, FillBuf(source, stream, avail)) = buf

\* next() has returned None on a buffer that starts with "a" and is not UTF-8.
C4_Witness ==
    /\ pc = "idle" /\ op = "next" /\ ~ValidUtf8(buf)
    /\ buf[1] = 97 /\ stream = pre

\* C5: next_i32 consumes what next() consumes, whether the token parses or
\* not, so what is left starts after the token.
C5_I32ConsumesAsNext ==
    pc = "idle" /\ op \in {"next", "next_i32"} =>
        /\ stream = Drop(pre, ConsumedByNext(delim, buf))
        /\ (tok # None =>
                LET k == SkipLen(delim, buf)
                IN  /\ tok[1] = SubSeq(pre, k + 1, k + Len(tok[1]))
                    /\ stream = Drop(pre, k + Len(tok[1])))

\* next_i32 has returned None for a token that is no number, and text is left.
C5_Witness ==
    /\ pc = "idle" /\ op = "next_i32" /\ ret = None
    /\ tok # None /\ stream # <<>>

\* C8 as stated: next_line() consumes through the next '\n' (or to the end),
\* returns what it consumed without its final '\n', and returns None when
\* nothing was consumed.
C8_Original ==
    pc = "idle" /\ op = "next_line" =>
        LET l == LineBytes(pre)
        IN  /\ stream = Drop(pre, Len(l))
            /\ ret = IF l = <<>> THEN None ELSE Some(Chomp(l))

\* C8, amended: the same, except that None is returned too when the consumed
\* bytes are not UTF-8.
C8_NextLine ==
    pc = "idle" /\ op = "next_line" =>
        LET l == LineBytes(pre)
        IN  /\ stream = Drop(pre, Len(l))
            /\ ret = IF l = <<>> \/ ~ValidUtf8(l) THEN None ELSE Some(Chomp(l))

\* next_line() has returned Some("") for a lone '\n' that more text follows.
C8_Witness ==
    /\ pc = "idle" /\ op = "next_line" /\ ret = Some(<<>>)
    /\ Len(pre) > 1 /\ stream # <<>>

\* The decimal text of an integer, stated on texts so that no number leaves
\* the i32 range.
NoCommas(t) == SelectSeq(t, LAMBDA b : b # 44)
Signed(c) == c # <<>> /\ c[1] \in {43, 45}
Digs(c) == IF Signed(c) THEN Tail(c) ELSE c
IsDecimal(c) == Digs(c) # <<>> /\ \A i \in 1..Len(Digs(c)) : Digs(c)[i] \in 48..57

RECURSIVE StripZeros(_)
StripZeros(ds) == IF Len(ds) > 1 /\ ds[1] = 48 THEN StripZeros(Tail(ds)) ELSE ds

\* a <= b for decimal texts of the same length
LexLeq(a, b) ==
    a = b \/ \E i \in 1..Len(a) : a[i] < b[i] /\ \A j \in 1..(i - 1) : a[j] = b[j]

\* "2147483647" and "2147483648"
MaxText == <<50, 49, 52, 55, 52, 56, 51, 54, 52, 55>>
MinText == <<50, 49, 52, 55, 52, 56, 51, 54, 52, 56>>

FitsI32(c) ==
    LET z == StripZeros(Digs(c))
    IN  Len(z) < 10 \/ (Len(z) = 10 /\ LexLeq(z, IF c[1] = 45 THEN MinText ELSE MaxText))

\* The decimal text of -w, for w <= 0.
RECURSIVE NegText(_)
NegText(w) ==
    LET d == (10 - (w % 10)) % 10
    IN  IF w > -10 THEN <<48 + d>> ELSE NegText((w + d) \div 10) \o <<48 + d>>

TextOf(v) == IF v > 0 THEN NegText(-v) ELSE NegText(v)

C7_RadixInRange ==
    /\ [](RadixOk(radix))
    /\ [](op = "new" => radix = 10)
    /\ [](op = "get_radix" => ret = Some(radix))
    /\ [][pc = "idle" /\ pc' = "idle" /\ op' = "set_radix" =>
            /\ radix' = IF RadixOk(arg') THEN arg' ELSE radix
            /\ UNCHANGED <<source, stream, avail, delim>>]_vars

\* set_radix(37) has returned and the radix is the 36 set before.
C7_Witness ==
    /\ pc = "idle" /\ op = "set_radix" /\ arg = 37
    /\ radix = 36

\* C10 as stated: every iteration of next()'s skip loop makes progress, so
\* every call of next() ends.
C10_SkipLoopProgress ==
    [][pc = "skip" /\ pc' = "skip" => Len(input') < Len(input)]_vars

====
